---- MODULE Spec2Model ----
(***************************************************************************)
(* Audio-driven spring mesh of the Dust visualizers.                       *)
(*                                                                         *)
(*   src/projects/audio_visualizer/mesh_wave.py  velocity-damping mesh     *)
(*   src/visualization3d.py                      viscosity mesh + hotspots *)
(*   src/projects/audio_visualizer/audio_processing.py  compute_fft_bars   *)
(*   src/visualization.py                        smoothed bars             *)
(*   src/visualizer.py, src/audio_processing.py  open_output_stream        *)
(*   src/projects/audio_visualizer/bars.py       bars with try/finally     *)
(*                                                                         *)
(* Real numbers are fixed-point integers: heights, bars and magnitudes in  *)
(* units of 1/Unit, hotspot coordinates in units of 1/PosUnit.  Point and  *)
(* bin indices are 0-based as in the source; sequences are 1-based, so     *)
(* element i of a Python list is element i+1 of the sequence modelling it. *)
(***************************************************************************)
EXTENDS Integers, Sequences, FiniteSets, TLC

VARIABLES
    gridN,        \* GRID_N of the run
    simplices,    \* tri.simplices: sequence of index triples
    k,            \* number of simplices the neighbour loop has processed
    neighbors,    \* neighbors[i]: list of point indices, i in 0..N*N-1
    spectrum,     \* magnitude bins handed to the band partition
    num_bars,     \* K of compute_fft_bars
    bins,         \* the K+1 boundary indices, <<>> before the call
    fft_bars,     \* the bars returned, <<>> before the first call
    variant,      \* the visualizer running: "mesh_wave", "visualization3d", ...
    pc,           \* position inside the frame loop body
    frame,        \* number of frames completed
    heights,      \* heights[i], fixed point, i in 0..N*N-1
    velocities,   \* velocities[i] (mesh_wave only)
    hotspots,     \* list of Hotspot objects [x, y, dx, dy]
    n_hot,        \* n_hot of the current frame
    rng,          \* state of the pseudo-random generator behind random.uniform
    opener,       \* which open_output_stream the run calls
    wasapi,       \* TRUE on win32 with a WASAPI host API present
    pa,           \* number of PyAudio instances created and not terminated
    stream,       \* "none" | "open" | "closed" (stopped and closed)
    running,      \* the loop flag of the visualizer
    error,        \* exception leaving the call: "none" | "RuntimeError" | "OSError"
    opens,        \* calls of open_output_stream made so far
    interp,       \* smoothing weight in hundredths
    bars_shown,   \* bars of run_visualization: the bars drawn in the current frame
    last_bars,    \* bars carried to the next frame
    blocksize,    \* samples per read of run_visualization
    bin_idx,      \* bin_idx[i] chosen for point i in the last viscosity update
    order,        \* the order in which the update loop visits the points
    alg,          \* name of the sort generator being stepped
    base,         \* the list as it was handed to the generator
    arr,          \* the list the generator sorts in place
    gen,          \* the suspended generator: its stack of frames
    highlight,    \* <<index>> last yielded, <<>> for None
    finished      \* finish_times[idx] is not None

topoVars == <<gridN, simplices, k, neighbors>>
fftVars == <<spectrum, num_bars, bins, fft_bars>>
meshVars == <<variant, pc, frame, heights, velocities>>
hotVars == <<hotspots, n_hot, rng>>
runVars == <<opener, wasapi, pa, stream, running, error, opens>>
smoothVars == <<interp, bars_shown, last_bars, blocksize>>
sortVars == <<alg, base, arr, gen, highlight, finished>>

vars == <<gridN, simplices, k, neighbors, spectrum, num_bars, bins, fft_bars,
          variant, pc, frame, heights, velocities, hotspots, n_hot, rng,
          opener, wasapi, pa, stream, running, error, opens,
          interp, bars_shown, last_bars, blocksize, bin_idx, order, sortVars>>

\* no list (the empty function on the indices 0..-1)
NoList == [x \in 0..(-1) |-> 0]

\* the sort comparison is not running
IdleSort ==
    /\ alg = "" /\ base = NoList /\ arr = NoList
    /\ gen = <<>> /\ highlight = <<>> /\ finished = FALSE

(***************************************************************************)
(* Bounds of the model.                                                    *)
(***************************************************************************)
MaxTopoN == 3

MaxBlock == 5

MaxBars == 4

MaxMag == 2

MaxGridN == 4

MaxFrames == 2

MaxSeed == 3

MaxMoves == 3

MaxIter == 1000

\* fixed-point resolution of heights, bars and magnitudes: 1.0 is Unit
Unit == 1000000

\* fixed-point resolution of hotspot and mesh coordinates: 1.0 is PosUnit
PosUnit == 1000

\* number of values random.random() takes in the model
RngMod == 16

Range(s) == {s[i] : i \in 1..Len(s)}

Abs(x) == IF x < 0 THEN -x ELSE x

\* np.clip(x, lo, hi)
Clip(x, lo, hi) == IF x < lo THEN lo ELSE IF x > hi THEN hi ELSE x

Points(n) == 0..(n * n - 1)

(***************************************************************************)
(* Mesh topology.  The Delaunay triangulation of the regular grid splits   *)
(* every grid cell along one of its two diagonals (the four corners are    *)
(* co-circular, so the library's tie-breaking decides which); diag[c] is   *)
(* that choice for cell c, orient the vertex order inside a triple and     *)
(* rev the order of the triples.                                           *)
(***************************************************************************)
Cells(n) == 0..((n - 1) * (n - 1) - 1)

CellTriangles(n, c, d) ==
    LET r == c \div (n - 1)
        q == c % (n - 1)
        p00 == r * n + q
        p01 == r * n + q + 1
        p10 == (r + 1) * n + q
        p11 == (r + 1) * n + q + 1
    IN  IF d = 0 THEN << <<p00, p01, p11>>, <<p00, p11, p10>> >>
                 ELSE << <<p00, p01, p10>>, <<p01, p11, p10>> >>

Orient(t, o) ==
    CASE o = 0 -> <<t[1], t[2], t[3]>>
      [] o = 1 -> <<t[2], t[3], t[1]>>
      [] o = 2 -> <<t[3], t[1], t[2]>>
      [] o = 3 -> <<t[1], t[3], t[2]>>
      [] o = 4 -> <<t[3], t[2], t[1]>>
      [] OTHER -> <<t[2], t[1], t[3]>>

Delaunay(n, diag, o, rev) ==
    LET m == 2 * (n - 1) * (n - 1)
        at(j) == Orient(CellTriangles(n, (j - 1) \div 2, diag[(j - 1) \div 2])[((j - 1) % 2) + 1], o)
    IN  [j \in 1..m |-> IF rev THEN at(m + 1 - j) ELSE at(j)]

EmptyNeighbors(n) == [i \in Points(n) |-> <<>>]

\* one direction of an edge only: the reverse entry is never added
AddEdgeOneWay(nb, a, b) ==
    IF b \notin Range(nb[a]) THEN [nb EXCEPT ![a] = Append(@, b)] ELSE nb

\* no membership test before appending
AddEdgeNoTest(nb, a, b) ==
    [nb EXCEPT ![a] = Append(@, b), ![b] = Append(@, a)]

\* if b not in neighbors[a]: append(b); if a not in neighbors[b]: append(a)
AddEdge(nb, a, b) ==
    LET nb1 == IF b \notin Range(nb[a]) THEN [nb EXCEPT ![a] = Append(@, b)] ELSE nb
    IN  IF a \notin Range(nb1[b]) THEN [nb1 EXCEPT ![b] = Append(@, a)] ELSE nb1

\* for i in range(3): a, b = simplex[i], simplex[(i+1)%3]
ProcessSimplex(nb, s) ==
    AddEdge(AddEdge(AddEdge(nb, s[1], s[2]), s[2], s[3]), s[3], s[1])

RECURSIVE BuildFrom(_, _, _)
\* the neighbour loop from simplex j on; reading DOMAIN nb makes TLC build the
\* list of each step before the next one instead of nesting all the steps
BuildFrom(nb, ss, j) ==
    IF j > Len(ss) \/ DOMAIN nb = {} THEN nb
    ELSE BuildFrom(ProcessSimplex(nb, ss[j]), ss, j + 1)

\* the whole neighbour loop
BuildNeighbors(n, ss) == BuildFrom(EmptyNeighbors(n), ss, 1)

IdleFFT ==
    /\ spectrum = <<>> /\ num_bars = 0 /\ bins = <<>> /\ fft_bars = <<>>

IdleFrame ==
    /\ variant = "none" /\ pc = "none" /\ frame = 0
    /\ heights = <<>> /\ velocities = <<>>
    /\ hotspots = <<>> /\ n_hot = 0 /\ rng = 0
    /\ bin_idx = <<>>
    /\ order = <<>>
    /\ IdleSort

IdleRun ==
    /\ opener = "none" /\ wasapi = FALSE /\ pa = 0 /\ stream = "none"
    /\ running = FALSE /\ error = "none" /\ opens = 0

IdleSmooth ==
    /\ interp = 0 /\ bars_shown = <<>> /\ last_bars = <<>> /\ blocksize = 0

InitTopo ==
    /\ gridN \in 2..MaxTopoN
    /\ \E diag \in [Cells(gridN) -> {0, 1}], o \in 0..5, rev \in BOOLEAN :
           simplices = Delaunay(gridN, diag, o, rev)
    /\ k = 0
    /\ neighbors = EmptyNeighbors(gridN)
    /\ IdleFFT
    /\ IdleFrame
    /\ IdleRun
    /\ IdleSmooth

\* one iteration of "for simplex in tri.simplices"
NeighborStep ==
    /\ k < Len(simplices)
    /\ neighbors' = ProcessSimplex(neighbors, simplices[k + 1])
    /\ k' = k + 1
    /\ UNCHANGED <<gridN, simplices, fftVars, meshVars, hotVars, runVars, smoothVars, bin_idx, order, sortVars>>

NextTopo == NeighborStep

SpecTopo == InitTopo /\ [][NextTopo]_vars

TopoDone == k = Len(simplices)

\* two simplices already processed share the edge {a, b}
SharedEdgeVisited ==
    \E i, j \in 1..k : \E a, b \in Points(gridN) :
        /\ i < j /\ a # b
        /\ {a, b} \subseteq Range(simplices[i])
        /\ {a, b} \subseteq Range(simplices[j])

\* C2: the neighbour list is symmetric: b in neighbors[a] implies a in
\* neighbors[b], for every grid size, triangulation and processing order,
\* after every edge-complete step of the construction.
C2_NeighborSymmetry ==
    \A a, b \in Points(gridN) :
        b \in Range(neighbors[a]) => a \in Range(neighbors[b])

C2_Witness ==
    /\ TopoDone /\ gridN = 3
    /\ \E a, b \in Points(gridN) : a # b /\ b \in Range(neighbors[a])

\* C3: no point is its own neighbour and no neighbour list holds an index
\* twice, although an edge shared by two triangles is visited twice.
C3_NoSelfLoopNoDuplicate ==
    \A a \in Points(gridN) :
        /\ a \notin Range(neighbors[a])
        /\ Cardinality(Range(neighbors[a])) = Len(neighbors[a])

C3_Witness ==
    /\ TopoDone /\ SharedEdgeVisited
    /\ \E a \in Points(gridN) : Len(neighbors[a]) >= 4

(***************************************************************************)
(* Spectrum extractor.  np.abs(np.fft.rfft(...)) of a block of B samples    *)
(* is B \div 2 + 1 magnitudes, each >= 0; the model takes every such        *)
(* sequence over Magnitudes (this covers the windowed and the unwindowed   *)
(* variant of compute_fft_bars, which differ only in the magnitudes).      *)
(* A float is a record: nan is TRUE for NaN, v is the value otherwise.     *)
(***************************************************************************)
Magnitudes == {m * (Unit \div 4) : m \in 0..MaxMag}

NumBins(B) == B \div 2 + 1

NaN == [nan |-> TRUE, v |-> 0]

Num(x) == [nan |-> FALSE, v |-> x]

\* a / b rounded to the nearest fixed-point value, b > 0
RoundDiv(a, b) == (2 * a + b) \div (2 * b)

RECURSIVE SumSeq(_, _, _)
SumSeq(s, lo, hi) == IF lo > hi THEN 0 ELSE s[lo] + SumSeq(s, lo + 1, hi)

\* boundaries that stop one bin short of the end of the spectrum
LinspaceShort(n, K) ==
    [i \in 1..(K + 1) |-> ((i - 1) * (n - 1)) \div K]

\* boundaries rounded to the nearest integer
LinspaceRounded(n, K) ==
    [i \in 1..(K + 1) |-> IF i = K + 1 THEN n ELSE RoundDiv((i - 1) * n, K)]

\* np.linspace(0, n, K + 1, dtype=int): element i is i * (n / K) rounded
\* down, the last one is n itself.  numpy forms the product in double
\* precision; for the sizes of this model it is exact and the element is
\* floor(i * n / K).  (Where i * n / K is an integer the double product can
\* fall just below it, first at K = 14, n = 122, i = 7, and the element is
\* then one less.)
Linspace(n, K) ==
    [i \in 1..(K + 1) |-> IF i = K + 1 THEN n ELSE ((i - 1) * n) \div K]

\* s[lo:hi].mean(): the mean of an empty slice is NaN
SliceMean(s, lo, hi) ==
    IF lo >= hi THEN NaN ELSE Num(RoundDiv(SumSeq(s, lo + 1, hi), hi - lo))

\* [spectrum[bins[i] : bins[i + 1]].mean() for i in range(num_bars)]
ComputeFftBars(spec, K) ==
    LET b == Linspace(Len(spec), K)
    IN  [i \in 1..K |-> SliceMean(spec, b[i], b[i + 1])]

IdleTopo ==
    /\ gridN = 0 /\ simplices = <<>> /\ k = 0 /\ neighbors = <<>>

InitFFT ==
    /\ \E B \in 1..MaxBlock : spectrum \in [1..NumBins(B) -> Magnitudes]
    /\ num_bars \in 1..MaxBars
    /\ bins = <<>>
    /\ fft_bars = <<>>
    /\ IdleTopo
    /\ IdleFrame
    /\ IdleRun
    /\ IdleSmooth

\* one call compute_fft_bars(samples, num_bars)
FftCall ==
    /\ bins = <<>>
    /\ bins' = Linspace(Len(spectrum), num_bars)
    /\ fft_bars' = ComputeFftBars(spectrum, num_bars)
    /\ UNCHANGED <<spectrum, num_bars, topoVars, meshVars, hotVars, runVars, smoothVars, bin_idx, order, sortVars>>

NextFFT == FftCall

SpecFFT == InitFFT /\ [][NextFFT]_vars

FftReturned == bins # <<>>

\* group i (0-based) of the partition is empty
EmptyGroup(i) == bins[i + 1] >= bins[i + 2]

\* C4: compute_fft_bars returns exactly K values, each a non-negative
\* number; a group of bins is empty only when K > num_bins, and the bar of
\* an empty group is 0.
C4_BarsNonNegative ==
    FftReturned =>
        /\ Len(fft_bars) = num_bars
        /\ \A i \in 0..(num_bars - 1) :
              /\ ~fft_bars[i + 1].nan
              /\ fft_bars[i + 1].v >= 0
              /\ EmptyGroup(i) => num_bars > Len(spectrum)
              /\ EmptyGroup(i) => fft_bars[i + 1] = Num(0)

\* C5: the K groups delimited by the K+1 boundaries are contiguous and cover
\* every magnitude bin 0..num_bins-1 exactly once: first boundary 0, last
\* boundary num_bins, boundaries never decrease, every bin in one group.
C5_PartitionComplete ==
    FftReturned =>
        /\ Len(bins) = num_bars + 1
        /\ bins[1] = 0
        /\ bins[num_bars + 1] = Len(spectrum)
        /\ \A i \in 1..num_bars : bins[i] <= bins[i + 1]
        /\ \A j \in 0..(Len(spectrum) - 1) :
              Cardinality({i \in 1..num_bars : bins[i] <= j /\ j < bins[i + 1]}) = 1

C5_Witness ==
    /\ FftReturned /\ num_bars >= 2 /\ Len(spectrum) >= 3
    /\ \E i \in 1..num_bars : bins[i + 1] - bins[i] >= 2

(***************************************************************************)
(* Hotspot field (src/visualization3d.py).                                 *)
(***************************************************************************)
max_hotspots == 8

\* the generator behind random.random(): a full-period congruential
\* generator over 0..RngMod-1; random() is r / RngMod, in [0, 1)
RngNext(r) == ((5 * r) + 3) % RngMod

\* random.uniform(lo, hi) == lo + (hi - lo) * random()
Uniform(lo, hi, r) == lo + ((hi - lo) * r) \div RngMod

MaxDrift == PosUnit \div 100

MaxJitter == PosUnit \div 500

\* Hotspot.__init__ with the four draws x, y, dx, dy
Hotspot(x, y, dx, dy) == [x |-> x, y |-> y, dx |-> dx, dy |-> dy]

\* Hotspot() drawing from the generator in state r (four draws)
NewHotspot(r) ==
    Hotspot(Uniform(-PosUnit, PosUnit, r),
            Uniform(-PosUnit, PosUnit, RngNext(r)),
            Uniform(-MaxDrift, MaxDrift, RngNext(RngNext(r))),
            Uniform(-MaxDrift, MaxDrift, RngNext(RngNext(RngNext(r)))))

\* the drift is reflected only when the position passes the wall outward
HotspotMoveNoFlipAtWall(h, jx, jy) ==
    LET x1 == h.x + h.dx + jx
        y1 == h.y + h.dy + jy
    IN  [x |-> Clip(x1, -PosUnit, PosUnit), y |-> Clip(y1, -PosUnit, PosUnit),
         dx |-> IF Abs(x1) > PosUnit THEN -h.dx ELSE h.dx,
         dy |-> IF Abs(y1) > PosUnit THEN -h.dy ELSE h.dy]

\* the drift is never reflected
HotspotMoveNoFlip(h, jx, jy) ==
    [x |-> Clip(h.x + h.dx + jx, -PosUnit, PosUnit),
     y |-> Clip(h.y + h.dy + jy, -PosUnit, PosUnit),
     dx |-> h.dx, dy |-> h.dy]

\* the position is not clipped to the square
HotspotMoveNoClip(h, jx, jy) ==
    LET x1 == h.x + h.dx + jx
        y1 == h.y + h.dy + jy
    IN  [x |-> x1, y |-> y1,
         dx |-> IF Abs(x1) >= PosUnit THEN -h.dx ELSE h.dx,
         dy |-> IF Abs(y1) >= PosUnit THEN -h.dy ELSE h.dy]

\* Hotspot.move with jitter draws jx, jy
HotspotMove(h, jx, jy) ==
    LET x1 == Clip(h.x + h.dx + jx, -PosUnit, PosUnit)
        y1 == Clip(h.y + h.dy + jy, -PosUnit, PosUnit)
    IN  [x |-> x1, y |-> y1,
         dx |-> IF Abs(x1) >= PosUnit THEN -h.dx ELSE h.dx,
         dy |-> IF Abs(y1) >= PosUnit THEN -h.dy ELSE h.dy]

\* the count is rounded to the nearest integer instead of truncated
TargetCountRounded(bars) ==
    LET den == Len(bars) * Unit
        num == den + 16 * SumSeq([i \in 1..Len(bars) |-> Abs(bars[i].v)], 1, Len(bars))
    IN  RoundDiv(Clip(num, den, max_hotspots * den), den)

\* the offset 1 is left out of the count
TargetCountNoOffset(bars) ==
    LET den == Len(bars) * Unit
        num == 16 * SumSeq([i \in 1..Len(bars) |-> Abs(bars[i].v)], 1, Len(bars))
    IN  Clip(num, den, max_hotspots * den) \div den

\* avg_height = np.mean(np.abs(fft_bars));
\* n_hot = int(np.clip(1 + avg_height * 16, 1, max_hotspots)),
\* exactly, as the quotient (K*Unit + 16*sum) / (K*Unit) clipped and truncated
TargetCount(bars) ==
    LET den == Len(bars) * Unit
        num == den + 16 * SumSeq([i \in 1..Len(bars) |-> Abs(bars[i].v)], 1, Len(bars))
    IN  Clip(num, den, max_hotspots * den) \div den

RECURSIVE Grow(_, _, _)
\* while len(hotspots) < n_hot: hotspots.append(Hotspot()); returns the list
\* and the generator state
Grow(hs, n, r) ==
    IF Len(hs) >= n THEN <<hs, r>>
    ELSE Grow(Append(hs, NewHotspot(r)), n, RngNext(RngNext(RngNext(RngNext(r)))))

\* the list only grows: the shrinking loop is missing
ResizeNoShrink(hs, n, r) == Grow(hs, n, r)

\* the list is shortened from the front
ResizeDropFront(hs, n, r) ==
    IF Len(hs) > n THEN <<SubSeq(hs, Len(hs) - n + 1, Len(hs)), r>>
    ELSE Grow(hs, n, r)

\* the two while loops: grow by appending, shrink by pop() from the end
Resize(hs, n, r) ==
    IF Len(hs) > n THEN <<SubSeq(hs, 1, n), r>> ELSE Grow(hs, n, r)

RECURSIVE MoveAll(_, _, _)
\* for h in hotspots: h.move(), from index j on; two draws per hotspot
MoveAll(hs, j, r) ==
    IF j > Len(hs) THEN <<hs, r>>
    ELSE MoveAll([hs EXCEPT ![j] = HotspotMove(@, Uniform(-MaxJitter, MaxJitter, r),
                                              Uniform(-MaxJitter, MaxJitter, RngNext(r)))],
                 j + 1, RngNext(RngNext(r)))

(***************************************************************************)
(* Spring relaxation.  Coefficients are in hundredths.                     *)
(***************************************************************************)
mw_spring_k == 12

mw_neighbor_k == 18

\* a damping factor above 1
damp_unstable == 100 + 12

damp == 88

v3_spring_k == 18

v3_neighbor_k == 14

visc == 82

\* c/100 * x, rounded to the nearest fixed-point value
Scale100(c, x) == RoundDiv(c * x, 100)

\* a point without neighbours feels no neighbour force
NeighborAvgSelfWhenEmpty(h, nb, i) ==
    IF nb[i] = <<>> THEN h[i]
    ELSE RoundDiv(SumSeq([j \in 1..Len(nb[i]) |-> h[nb[i][j]]], 1, Len(nb[i])), Len(nb[i]))

\* np.mean([heights[j] for j in neighbors[i]]) if neighbors[i] else 0.0
NeighborAvg(h, nb, i) ==
    IF nb[i] = <<>> THEN 0
    ELSE RoundDiv(SumSeq([j \in 1..Len(nb[i]) |-> h[nb[i][j]]], 1, Len(nb[i])), Len(nb[i]))

\* the scale is added to the bar instead of multiplying it
DirectTargetOffset(bars, i) == bars[i + 1].v + 2 * Unit

\* target = fft_bars[i] * 2.0
DirectTarget(bars, i) == bars[i + 1].v * 2

\* the spring pulls away from the target
VelocityForceInverted(h, nb, i, target) ==
    Scale100(mw_spring_k, h[i] - target) + Scale100(mw_neighbor_k, NeighborAvg(h, nb, i) - h[i])

\* force = spring_k * (target - heights[i]) + neighbor_k * (neighbor_avg - heights[i])
VelocityForce(h, nb, i, target) ==
    Scale100(mw_spring_k, target - h[i]) + Scale100(mw_neighbor_k, NeighborAvg(h, nb, i) - h[i])

\* the loop over the points: velocities[i] = damp * (velocities[i] + force)
RelaxVelocities(h, v, nb, bars) ==
    [i \in DOMAIN h |-> Scale100(damp, v[i] + VelocityForce(h, nb, i, DirectTarget(bars, i)))]

\* floor of the square root, by bisection on lo..hi
RECURSIVE SqrtSearch(_, _, _)
SqrtSearch(v, lo, hi) ==
    IF lo >= hi THEN lo
    ELSE LET mid == (lo + hi + 1) \div 2
         IN  IF mid * mid <= v THEN SqrtSearch(v, mid, hi) ELSE SqrtSearch(v, lo, mid - 1)

\* np.hypot(a, b)
Hypot(a, b) == SqrtSearch(a * a + b * b, 0, 3 * PosUnit)

\* np.linspace(-1, 1, GRID_N)[c]
GridCoord(n, c) == -PosUnit + (2 * PosUnit * c) \div (n - 1)

RECURSIVE MinSeq(_, _)
MinSeq(s, j) ==
    IF j = Len(s) THEN s[j]
    ELSE LET m == MinSeq(s, j + 1) IN IF s[j] < m THEN s[j] ELSE m

\* min(dists) for mesh point i = row * n + col: px is the column coordinate
MinDist(n, i, hs) ==
    MinSeq([j \in 1..Len(hs) |-> Hypot(GridCoord(n, i % n) - hs[j].x,
                                       GridCoord(n, i \div n) - hs[j].y)], 1)

\* the bin is rounded to the nearest index instead of truncated
BinIdxRounded(n, i, hs, K) ==
    LET scaled_dist == MinDist(n, i, hs) \div 2
        rel == Clip(PosUnit - scaled_dist \div 2, 0, PosUnit)
    IN  RoundDiv(rel * (K - 1), PosUnit)

\* scaled_dist = min_dist * 0.5; rel = clip(1 - scaled_dist / 2, 0, 1);
\* bin_idx = int(rel * (len(fft_bars) - 1))
BinIdx(n, i, hs, K) ==
    LET scaled_dist == MinDist(n, i, hs) \div 2
        rel == Clip(PosUnit - scaled_dist \div 2, 0, PosUnit)
    IN  (rel * (K - 1)) \div PosUnit

\* bin_idx of every mesh point, computed at the top of the loop body
BinIdxAll(n, hs, K) == [i \in Points(n) |-> BinIdx(n, i, hs, K)]

\* target = fft_bars[bin_idx] * 8.0
HotspotTarget(b, bars) == bars[b + 1].v * 8

\* new_heights[i] = visc*heights[i] + spring_k*(target - heights[i])
\*                  + neighbor_k*(neighbor_avg - heights[i]),
\* b[i] being the bin_idx of point i
RelaxViscosity(h, nb, b, bars) ==
    [i \in DOMAIN h |->
        Scale100(visc, h[i])
        + Scale100(v3_spring_k, HotspotTarget(b[i], bars) - h[i])
        + Scale100(v3_neighbor_k, NeighborAvg(h, nb, i) - h[i])]

(***************************************************************************)
(* The frame loops.  A block of 2048 samples gives 1025 magnitude bins for *)
(* GRID_N * GRID_N = 1024 bars: one bin more than bars.                    *)
(***************************************************************************)
FrameBins(n) == n * n + 1

Zeros(n) == [i \in Points(n) |-> 0]

\* the two regular splittings and the alternating one
DiagPatterns(n) ==
    {[c \in Cells(n) |-> 0], [c \in Cells(n) |-> 1],
     [c \in Cells(n) |-> ((c \div (n - 1)) + (c % (n - 1))) % 2]}

\* the spectra a frame can read: flat at the levels that separate the
\* hotspot counts, a ramp and a single peak
SpectrumInputs(nb) ==
    {[j \in 1..nb |-> L] : L \in {0, Unit \div 16, (7 * Unit) \div 16 - 1,
                                 (7 * Unit) \div 16, Unit}}
    \cup {[j \in 1..nb |-> ((j - 1) * Unit) \div nb],
          [j \in 1..nb |-> IF j = 2 THEN Unit ELSE 0]}

\* the flat spectrum whose bars give the target 0.5 at every point
\* (0.25 * 2.0 in mesh_wave, 0.0625 * 8.0 in visualization3d)
ConstantSpectrum(var, nb) ==
    [j \in 1..nb |-> IF var = "mesh_wave" THEN Unit \div 4 ELSE Unit \div 16]

InitFrame ==
    /\ variant \in {"mesh_wave", "visualization3d"}
    /\ gridN \in 2..MaxGridN
    /\ \E diag \in DiagPatterns(gridN) : simplices = Delaunay(gridN, diag, 0, FALSE)
    /\ k = Len(simplices)
    /\ neighbors = BuildNeighbors(gridN, simplices)
    /\ spectrum = <<>> /\ num_bars = gridN * gridN /\ bins = <<>> /\ fft_bars = <<>>
    /\ pc = "read"
    /\ frame = 0
    /\ heights = Zeros(gridN)
    /\ velocities = Zeros(gridN)
    /\ hotspots = <<>>
    /\ n_hot = 0
    /\ rng \in IF variant = "visualization3d" THEN 0..MaxSeed ELSE {0}
    /\ bin_idx = <<>>
    /\ order = <<>>
    /\ IdleSort
    /\ IdleRun
    /\ IdleSmooth

\* stream.read, down-mix and compute_fft_bars(samples, GRID_N*GRID_N)
AudioRead(s) ==
    /\ pc = "read"
    /\ spectrum' = s
    /\ bins' = Linspace(Len(s), num_bars)
    /\ fft_bars' = ComputeFftBars(s, num_bars)
    /\ pc' = IF variant = "visualization3d" THEN "resize" ELSE "relax"
    /\ UNCHANGED <<topoVars, num_bars, variant, frame, heights, velocities, hotVars, runVars, smoothVars, bin_idx, order, sortVars>>

ReadAudio ==
    /\ frame < MaxFrames
    /\ \E s \in SpectrumInputs(FrameBins(gridN)) : AudioRead(s)

\* visualization3d.py lines 159-165
ResizeHotspots ==
    /\ pc = "resize"
    /\ n_hot' = TargetCount(fft_bars)
    /\ LET res == Resize(hotspots, n_hot', rng)
       IN  hotspots' = res[1] /\ rng' = res[2]
    /\ pc' = "move"
    /\ UNCHANGED <<topoVars, fftVars, variant, frame, heights, velocities, runVars, smoothVars, bin_idx, order, sortVars>>

\* visualization3d.py lines 166-167
MoveHotspots ==
    /\ pc = "move"
    /\ LET res == MoveAll(hotspots, 1, rng)
       IN  hotspots' = res[1] /\ rng' = res[2]
    /\ pc' = "relax"
    /\ UNCHANGED <<topoVars, fftVars, variant, frame, heights, velocities, n_hot, runVars, smoothVars, bin_idx, order, sortVars>>

\* visualization3d.py lines 169-185
RelaxMeshViscosity ==
    /\ pc = "relax" /\ variant = "visualization3d"
    /\ bin_idx' = BinIdxAll(gridN, hotspots, Len(fft_bars))
    /\ heights' = RelaxViscosity(heights, neighbors, bin_idx', fft_bars)
    /\ frame' = frame + 1
    /\ pc' = "read"
    /\ UNCHANGED <<topoVars, fftVars, variant, velocities, hotVars, runVars, smoothVars, order, sortVars>>

\* mesh_wave.py lines 125-130
RelaxMeshVelocity ==
    /\ pc = "relax" /\ variant = "mesh_wave"
    /\ velocities' = RelaxVelocities(heights, velocities, neighbors, fft_bars)
    /\ heights' = [i \in DOMAIN heights |-> heights[i] + velocities'[i]]
    /\ frame' = frame + 1
    /\ pc' = "read"
    /\ UNCHANGED <<topoVars, fftVars, variant, hotVars, runVars, smoothVars, bin_idx, order, sortVars>>

NextFrame ==
    \/ ReadAudio
    \/ ResizeHotspots
    \/ MoveHotspots
    \/ RelaxMeshViscosity
    \/ RelaxMeshVelocity

SpecFrame == InitFrame /\ [][NextFrame]_vars

AllBars(bars, v) == \A i \in 1..Len(bars) : bars[i] = Num(v)

AllHeights(v) == \A i \in Points(gridN) : heights[i] = v

\* K times the average spectral energy mean(|bars|), K the number of bars
EnergySum(bars) == SumSeq([i \in 1..Len(bars) |-> Abs(bars[i].v)], 1, Len(bars))

AfterResize == variant = "visualization3d" /\ pc \in {"move", "relax"}

\* C1 as stated: the number of active hotspots is always in
\* [1, max_hotspots], and after the grow/shrink step of every frame it
\* equals the target count of that frame's average spectral energy.
C1_CountAlwaysInRange ==
    variant = "visualization3d" =>
        /\ Len(hotspots) \in 1..max_hotspots
        /\ AfterResize => Len(hotspots) = TargetCount(fft_bars)

\* C1 (amended): from the first frame's grow/shrink step on the number of
\* active hotspots is in [1, max_hotspots], and after the grow/shrink step
\* of every frame it equals the target count of that frame's average
\* spectral energy; before the first grow/shrink step the list is empty.
C1_CountTracksTarget ==
    variant = "visualization3d" =>
        /\ (frame >= 1 \/ AfterResize) => Len(hotspots) \in 1..max_hotspots
        /\ AfterResize => /\ Len(hotspots) = n_hot
                          /\ n_hot = TargetCount(fft_bars)
        /\ (frame = 0 /\ ~AfterResize) => hotspots = <<>>

\* a later frame whose grow/shrink step has brought the list to the maximum
C1_Witness ==
    /\ AfterResize /\ frame >= 1
    /\ n_hot = max_hotspots
    /\ Len(hotspots) = max_hotspots

\* C7: direct mode, N = 4, heights = velocities = 0, every bar 1,
\* spring_k = 0.12, neighbor_k = 0.18, damp = 0.88: after one relaxation
\* step every height is strictly positive and all 16 heights are equal,
\* whatever the number of neighbours of a point.
C7_UniformFirstStep ==
    (variant = "mesh_wave" /\ gridN = 4 /\ frame = 1 /\ pc = "read"
        /\ AllBars(fft_bars, Unit)) =>
        /\ \A i \in Points(gridN) : heights[i] > 0
        /\ \A i, j \in Points(gridN) : heights[i] = heights[j]

C7_Witness ==
    /\ variant = "mesh_wave" /\ gridN = 4 /\ frame = 1 /\ pc = "read"
    /\ AllBars(fft_bars, Unit)
    /\ \E i, j \in Points(gridN) : Len(neighbors[i]) # Len(neighbors[j])
    /\ AllHeights(2112 * (Unit \div 10000))

\* C10: the target count is 1 when the average spectral energy is 0 and
\* max_hotspots whenever the average is at least (max_hotspots - 1) / 16.
C10_TargetCountEnds ==
    AfterResize =>
        /\ EnergySum(fft_bars) = 0 => n_hot = 1
        /\ 16 * EnergySum(fft_bars) >= (max_hotspots - 1) * Len(fft_bars) * Unit
               => n_hot = max_hotspots

\* the average is exactly (max_hotspots - 1) / 16
C10_Witness ==
    /\ AfterResize
    /\ 16 * EnergySum(fft_bars) = (max_hotspots - 1) * Len(fft_bars) * Unit
    /\ n_hot = max_hotspots
    /\ Len(hotspots) = max_hotspots

(***************************************************************************)
(* Runs on a constant input: the same spectrum is read in every frame.     *)
(***************************************************************************)
SilentSpectrum(nb) == [j \in 1..nb |-> 0]

InitConst == InitFrame /\ rng = 0

ReadConstant ==
    /\ frame < MaxIter
    /\ \E s \in {SilentSpectrum(FrameBins(gridN)), ConstantSpectrum(variant, FrameBins(gridN))} :
          /\ frame = 0 \/ s = spectrum
          /\ AudioRead(s)

NextConst ==
    \/ ReadConstant
    \/ ResizeHotspots
    \/ MoveHotspots
    \/ RelaxMeshViscosity
    \/ RelaxMeshVelocity

SpecConst == InitConst /\ [][NextConst]_vars

Silent == spectrum # <<>> /\ AllBars(fft_bars, 0)

\* C6: silent input (every bar 0 in every frame), heights = velocities = 0
\* at the start: the heights equal their initial value after any number of
\* relaxation steps, in the velocity-damping and in the viscosity update.
C6_SilentMeshStaysFlat ==
    Silent => AllHeights(0)

C6_Witness ==
    /\ Silent /\ variant = "visualization3d" /\ gridN = 4 /\ frame >= 3
    /\ AllHeights(0)

HalfTarget == spectrum # <<>> /\ ~AllBars(fft_bars, 0)

Within(x, c, eps) == Abs(x - c) <= eps

\* C8 as stated: constant target 0.5 from heights = velocities = 0 with the
\* default coefficients of each mode: during 1000 iterations every |height|
\* stays below 10 and at the end every height is within 1e-3 of 0.5.
C8_ConvergesToTarget ==
    HalfTarget =>
        \A i \in Points(gridN) :
            /\ Abs(heights[i]) < 10 * Unit
            /\ frame = MaxIter => Within(heights[i], Unit \div 2, Unit \div 1000)

\* C8 (amended): during the 1000 iterations every |height| stays below 10 in
\* both modes; at the end every height is within 1e-3 of the target 0.5 in
\* the velocity-damping mode, and within 1e-3 of 0.25 (half the target) in
\* the viscosity mode.
C8_BoundedAndSettled ==
    HalfTarget =>
        \A i \in Points(gridN) :
            /\ Abs(heights[i]) < 10 * Unit
            /\ (frame = MaxIter /\ variant = "mesh_wave")
                   => Within(heights[i], Unit \div 2, Unit \div 1000)
            /\ (frame = MaxIter /\ variant = "visualization3d")
                   => Within(heights[i], Unit \div 4, Unit \div 1000)

C8_Witness ==
    /\ HalfTarget /\ frame = MaxIter /\ variant = "visualization3d"
    /\ \A i \in Points(gridN) : Within(heights[i], Unit \div 4, Unit \div 1000)

(***************************************************************************)
(* One hotspot moved with every jitter: Hotspot.move as a function.        *)
(***************************************************************************)
StartPos == {-PosUnit, 0, PosUnit - 3, PosUnit - 1}

StartDrift == {-MaxDrift, -1, 1, MaxDrift}

Jitters == {-MaxJitter, 0, MaxJitter}

InitHot ==
    /\ \/ \E x \in StartPos, y \in StartPos \ {-PosUnit}, dx \in StartDrift, dy \in StartDrift \ {-1} :
              hotspots = <<Hotspot(x, y, dx, dy)>>
       \/ \E r \in 0..(RngMod - 1) : hotspots = <<NewHotspot(r)>>
    /\ variant = "hotspot" /\ pc = "move" /\ frame = 0
    /\ n_hot = 1 /\ rng = 0
    /\ bin_idx = <<>>
    /\ order = <<>>
    /\ IdleSort
    /\ heights = <<>> /\ velocities = <<>>
    /\ IdleTopo
    /\ IdleFFT
    /\ IdleRun
    /\ IdleSmooth

\* h.move() with the two jitter draws jx, jy
HotMove ==
    /\ frame < MaxMoves
    /\ \E jx \in Jitters, jy \in Jitters :
           hotspots' = <<HotspotMove(hotspots[1], jx, jy)>>
    /\ frame' = frame + 1
    /\ UNCHANGED <<topoVars, fftVars, variant, pc, heights, velocities, n_hot, rng, runVars, smoothVars, bin_idx, order, sortVars>>

NextHot == HotMove

SpecHot == InitHot /\ [][NextHot]_vars

\* C9: a move that brings x to x >= 1 or x <= -1 flips the sign of the
\* x-drift (the next step uses the flipped drift); the y-drift is flipped
\* only when y reaches +-1; a flip on one axis leaves the other axis's
\* drift unchanged.
C9_ReflectAtWall ==
    [][\A j \in 1..Len(hotspots) :
          LET h == hotspots[j]
              m == hotspots'[j]
          IN  /\ m.dx = IF Abs(m.x) >= PosUnit THEN -h.dx ELSE h.dx
              /\ m.dy = IF Abs(m.y) >= PosUnit THEN -h.dy ELSE h.dy]_vars

\* a hotspot on the wall x = 1 with y inside, after a move
C9_Witness ==
    /\ variant = "hotspot" /\ frame >= 1
    /\ hotspots[1].x = PosUnit
    /\ Abs(hotspots[1].y) < PosUnit
    /\ hotspots[1].dx < 0

(***************************************************************************)
(* Audio resource life cycle: open_output_stream and the callers' loops.   *)
(*                                                                         *)
(* variant names the caller: run_mesh_wave, run_visualization, run_bars,   *)
(* run_visualizer, or "caller" for a direct call of open_output_stream.    *)
(* run_visualization unpacks four values and imports choose_capture_device,*)
(* so the audio_processing module it can run with is the one of            *)
(* src/projects/audio_visualizer.                                          *)
(***************************************************************************)

\* bound on the calls of open_output_stream made by the retry loop
MaxOpens == 2

Programs == {"mesh_wave", "visualization", "bars", "visualizer"}

\* "projects": src/projects/audio_visualizer/audio_processing.py
\* "src": src/audio_processing.py      "visualizer": src/visualizer.py
Openers == {"projects", "src", "visualizer"}

ProgramOpener(p) == IF p = "visualizer" THEN "visualizer" ELSE "projects"

OpenOk == [pa |-> 1, stream |-> "open", error |-> "none"]

\* what a failed call leaves behind: pa = 1 when the instance is still live
OpenFailed(live, e) == [pa |-> live, stream |-> "none", error |-> e]

\* open_output_stream.  lookup_ok: the device lookup succeeds; rejected: the
\* number of pa.open calls the device rejects before it accepts one;
\* ncombos: the number of format/channel combinations tried (projects)
OpenOutputStream(op, w, lookup_ok, rejected, ncombos) ==
    IF op # "projects" /\ w
    THEN \* WASAPI branch: lookup and pa.open are outside every try block
         IF lookup_ok /\ rejected = 0 THEN OpenOk ELSE OpenFailed(1, "OSError")
    ELSE IF ~lookup_ok THEN OpenFailed(0, "RuntimeError")
    ELSE IF op = "projects"
    THEN IF rejected >= ncombos THEN OpenFailed(0, "RuntimeError") ELSE OpenOk
    ELSE IF rejected > 0 THEN OpenFailed(0, "RuntimeError") ELSE OpenOk

\* a caller that goes on into its frame loop whatever the open did
OnOpenErrorFallThrough(p, e) == [pc |-> "loop", error |-> "none"]

\* what the caller does with the exception e of open_output_stream
OnOpenError(p, e) ==
    IF e = "RuntimeError" /\ p = "visualization" THEN [pc |-> "open", error |-> "none"]
    ELSE IF e = "RuntimeError" /\ p = "visualizer" THEN [pc |-> "done", error |-> "none"]
    ELSE [pc |-> "done", error |-> e]

\* the loop body sits in try/finally
HasFinally(p) == p \in {"bars", "visualizer"}

InitRun ==
    /\ variant \in Programs \cup {"caller"}
    /\ opener \in IF variant = "caller" THEN Openers ELSE {ProgramOpener(variant)}
    /\ wasapi \in BOOLEAN
    /\ pa = 0 /\ stream = "none" /\ running = FALSE /\ error = "none" /\ opens = 0
    /\ pc = "open" /\ frame = 0
    /\ heights = <<>> /\ velocities = <<>>
    /\ hotspots = <<>> /\ n_hot = 0 /\ rng = 0
    /\ bin_idx = <<>>
    /\ order = <<>>
    /\ IdleSort
    /\ IdleTopo
    /\ IdleFFT
    /\ IdleSmooth

\* the call of open_output_stream and the caller's handling of its outcome
CallOpen ==
    /\ pc = "open"
    /\ opens < MaxOpens
    /\ \E lookup_ok \in BOOLEAN, rejected \in 0..4, ncombos \in {2, 4} :
           LET r == OpenOutputStream(opener, wasapi, lookup_ok, rejected, ncombos)
               h == OnOpenError(variant, r.error)
           IN  /\ pa' = pa + r.pa
               /\ stream' = r.stream
               /\ IF r.error = "none"
                  THEN /\ pc' = IF variant = "caller" THEN "done" ELSE "loop"
                       /\ error' = "none"
                  ELSE /\ pc' = h.pc
                       /\ error' = h.error
    /\ running' = (pc' = "loop")
    /\ opens' = opens + 1
    /\ UNCHANGED <<topoVars, fftVars, variant, frame, heights, velocities, hotVars,
                   opener, wasapi, smoothVars, bin_idx, order, sortVars>>

\* one iteration of "while running": the event poll, the blocking read, then
\* extraction, relaxation and drawing; on leaving the loop the release
\* statements that the exit reaches
FrameBody ==
    /\ pc = "loop"
    /\ frame < MaxFrames
    /\ \E quit \in BOOLEAN, read_ok \in BOOLEAN :
           /\ running' = ~quit
           /\ IF read_ok
              THEN /\ frame' = frame + 1
                   /\ error' = "none"
                   /\ pc' = IF quit THEN "done" ELSE "loop"
                   /\ stream' = IF quit THEN "closed" ELSE stream
                   /\ pa' = IF quit THEN pa - 1 ELSE pa
              ELSE /\ frame' = frame
                   /\ error' = "OSError"
                   /\ pc' = "done"
                   /\ stream' = IF HasFinally(variant) THEN "closed" ELSE stream
                   /\ pa' = IF HasFinally(variant) THEN pa - 1 ELSE pa
    /\ UNCHANGED <<topoVars, fftVars, variant, heights, velocities, hotVars,
                   opener, wasapi, opens, smoothVars, bin_idx, order, sortVars>>

NextRun ==
    \/ CallOpen
    \/ FrameBody

SpecRun == InitRun /\ [][NextRun]_vars

\* the run has left the frame loop it had entered
LoopExited == variant \in Programs /\ pc = "done" /\ stream # "none"

\* C11: on every exit from a visualizer's frame loop, by the quit signal or
\* by an error raised inside the loop (a failing audio read), the audio
\* resource acquired before the loop is released: the stream is stopped and
\* closed and the PyAudio instance is terminated.
C11_ReleasedOnEveryExit ==
    LoopExited => (stream = "closed" /\ pa = 0)

\* C12: whenever open_output_stream fails to open a stream (the device lookup
\* fails, every format/channel combination is rejected, or the open call
\* raises), the PyAudio instance it created has been terminated when the
\* error reaches the caller: no instance is left live on an error path.
C12_TerminatedOnOpenFailure ==
    (opens > 0 /\ stream = "none") => pa = 0

\* C13: no spectrum extraction or relaxation step is executed unless opening
\* the stream has succeeded: the frame loop is entered only with an open
\* stream, frames are counted only after a successful open, and after a
\* failed open the visualizer has returned, propagated the error, or is
\* about to ask for a device again.
C13_NoFrameWithoutStream ==
    /\ pc = "loop" => stream = "open"
    /\ frame > 0 => stream \in {"open", "closed"}
    /\ (opens > 0 /\ stream = "none") =>
           /\ frame = 0
           /\ \/ pc = "done" /\ error = "none" /\ variant = "visualizer"
              \/ pc = "done" /\ error # "none"
              \/ pc = "open" /\ variant = "visualization"

\* run_visualization after a failed open, a second choice of device and a
\* successful open: only then a frame has run
C13_Witness ==
    /\ variant = "visualization" /\ opens = 2 /\ frame > 0

(***************************************************************************)
(* Smoothing of the bars in run_visualization (src/visualization.py).      *)
(* interp is in hundredths; a bar is a record [nan, v] as compute_fft_bars *)
(* returns it, and arithmetic on a NaN gives NaN, also when its weight is  *)
(* 0.                                                                      *)
(***************************************************************************)

Interps == {25, 50, 100}

\* np.zeros(num_bars)
ZeroBars(K) == [i \in 1..K |-> Num(0)]

\* a * x + (1 - a) * y on one element
Blend(a, x, y) ==
    IF x.nan \/ y.nan THEN NaN
    ELSE Num(RoundDiv(a * x.v + (100 - a) * y.v, 100))

\* the weights of the two terms exchanged
SmoothSwapped(a, new_bars, last) ==
    [i \in DOMAIN new_bars |-> Blend(100 - a, new_bars[i], last[i])]

\* interp * new_bars + (1 - interp) * last_bars
Smooth(a, new_bars, last) ==
    [i \in DOMAIN new_bars |-> Blend(a, new_bars[i], last[i])]

InitSmooth ==
    /\ variant = "visualization" /\ pc = "loop" /\ frame = 0
    /\ blocksize \in 1..MaxBlock
    /\ num_bars \in 1..MaxBars
    /\ interp \in Interps
    /\ last_bars = ZeroBars(num_bars)
    /\ bars_shown = ZeroBars(num_bars)
    /\ spectrum = <<>> /\ bins = <<>> /\ fft_bars = <<>>
    /\ heights = <<>> /\ velocities = <<>>
    /\ hotspots = <<>> /\ n_hot = 0 /\ rng = 0
    /\ bin_idx = <<>>
    /\ order = <<>>
    /\ IdleSort
    /\ IdleTopo
    /\ IdleRun

\* one iteration of the loop: read, compute_fft_bars, interpolate, copy
SmoothFrame ==
    /\ frame < MaxFrames
    /\ \E s \in SpectrumInputs(NumBins(blocksize)) :
           /\ spectrum' = s
           /\ bins' = Linspace(Len(s), num_bars)
           /\ fft_bars' = ComputeFftBars(s, num_bars)
    /\ bars_shown' = Smooth(interp, fft_bars', last_bars)
    /\ last_bars' = bars_shown'
    /\ frame' = frame + 1
    /\ UNCHANGED <<topoVars, num_bars, variant, pc, heights, velocities, hotVars,
                   runVars, interp, blocksize, bin_idx, order, sortVars>>

NextSmooth == SmoothFrame

SpecSmooth == InitSmooth /\ [][NextSmooth]_vars

\* C14: the bars shown for frame t are interp * new_bars + (1 - interp) *
\* bars[t-1], the bars before the first frame being 0; with interp = 1 the
\* bars shown are the freshly computed bars in every frame, whatever the
\* earlier frames were.
C14_Smoothing ==
    [][/\ frame = 0 => bars_shown = ZeroBars(num_bars)
       /\ bars_shown' = [i \in 1..num_bars |->
                            Blend(interp, fft_bars'[i], bars_shown[i])]
       /\ interp = 100 => bars_shown' = fft_bars']_vars

\* a second frame shown part-way between the fresh bars and the bars of the
\* first frame
C14_Witness ==
    /\ variant = "visualization" /\ frame = 2 /\ interp = 25
    /\ \E i \in 1..num_bars :
           /\ ~fft_bars[i].nan
           /\ fft_bars[i].v > bars_shown[i].v
           /\ bars_shown[i].v > 0

(***************************************************************************)
(* One velocity-damping update (mesh_wave.py lines 125-130) as a function  *)
(* of its inputs: heights, velocities, bars and neighbour lists drawn from *)
(* small sets, a point without neighbours included.                        *)
(***************************************************************************)

StepPoints == 0..1

StepNeighborLists == {<<>>, <<0>>, <<1>>, <<0, 1>>}

StepHeights == {-(Unit \div 2), 0, Unit \div 4}

StepVelocities == {-(Unit \div 10), 0, Unit \div 10}

StepBars == {0, Unit \div 4, Unit}

InitStep ==
    /\ variant = "mesh_wave_step" /\ pc = "relax" /\ frame = 0
    /\ neighbors \in [StepPoints -> StepNeighborLists]
    /\ heights \in [StepPoints -> StepHeights]
    /\ velocities \in [StepPoints -> StepVelocities]
    /\ \E b \in [1..2 -> StepBars] : fft_bars = [i \in 1..2 |-> Num(b[i])]
    /\ gridN = 0 /\ simplices = <<>> /\ k = 0
    /\ spectrum = <<>> /\ num_bars = 2 /\ bins = <<>>
    /\ hotspots = <<>> /\ n_hot = 0 /\ rng = 0
    /\ bin_idx = <<>>
    /\ order = <<>>
    /\ IdleSort
    /\ IdleRun
    /\ IdleSmooth

\* the loop over the points and "heights += velocities"
RelaxStep ==
    /\ pc = "relax" /\ variant = "mesh_wave_step"
    /\ velocities' = RelaxVelocities(heights, velocities, neighbors, fft_bars)
    /\ heights' = [i \in DOMAIN heights |-> heights[i] + velocities'[i]]
    /\ frame' = frame + 1
    /\ pc' = "done"
    /\ UNCHANGED <<topoVars, fftVars, variant, hotVars, runVars, smoothVars, bin_idx, order, sortVars>>

NextStep == RelaxStep

SpecStep == InitStep /\ [][NextStep]_vars

\* mean of the heights of the points listed, 0 for an empty list
MeanHeight(h, nbs) ==
    IF Len(nbs) = 0 THEN 0
    ELSE RoundDiv(SumSeq([j \in 1..Len(nbs) |-> h[nbs[j]]], 1, Len(nbs)), Len(nbs))

\* C15: a velocity-damping update sets, for every point i,
\* velocity[i] := damp * (velocity[i] + spring_k * (target[i] - heights[i])
\*                        + neighbor_k * (neighbor_avg[i] - heights[i]))
\* and heights[i] := heights[i] + velocity[i], where target[i] is bar i times
\* the scale 2 and neighbor_avg[i] is the mean of the old heights of i's
\* neighbours, or 0 when i has no neighbours.
C15_VelocityUpdate ==
    [][(pc = "relax" /\ variant \in {"mesh_wave", "mesh_wave_step"}) =>
          \A i \in DOMAIN heights :
              LET target == 2 * fft_bars[i + 1].v
                  neighbor_avg == MeanHeight(heights, neighbors[i])
                  force == Scale100(mw_spring_k, target - heights[i])
                           + Scale100(mw_neighbor_k, neighbor_avg - heights[i])
              IN  /\ velocities'[i] = Scale100(damp, velocities[i] + force)
                  /\ heights'[i] = heights[i] + velocities'[i]]_vars

\* after an update, a point without neighbours that started off the plane
\* z = 0 at rest under a silent bar: only the pull towards 0 moved it
C15_Witness ==
    /\ variant = "mesh_wave_step" /\ pc = "done"
    /\ neighbors[0] = <<>> /\ neighbors[1] = <<0>>
    /\ fft_bars[1].v = 0
    /\ velocities[0] = Scale100(damp, Scale100(mw_spring_k + mw_neighbor_k, -(Unit \div 4)))
    /\ heights[0] = Unit \div 4 + velocities[0]

(***************************************************************************)
(* Rounding in the hotspot count, the band boundaries and the bin choice.  *)
(***************************************************************************)

\* K * Unit: the denominator of 1 + avg_energy * 16 written as a quotient
CountDen == Len(fft_bars) * Unit

\* its numerator: (1 + avg_energy * 16) * K * Unit
CountNum == CountDen + 16 * EnergySum(fft_bars)

\* r is an integer nearest to a / b
Nearest(r, a, b) == 2 * Abs(r * b - a) <= b

\* C16 as stated: the target count of every frame equals
\* clamp(round(1 + avg_energy * 16), 1, max_hotspots), rounding to the
\* nearest integer (either way at a tie).
C16_TargetCountRounds ==
    AfterResize =>
        \E r \in 1..(CountNum \div CountDen + 1) :
            /\ Nearest(r, CountNum, CountDen)
            /\ n_hot = Clip(r, 1, max_hotspots)

\* C16 (amended): the target count is clamp(1 + avg_energy * 16, 1,
\* max_hotspots) truncated to an integer: the largest integer not above
\* 1 + avg_energy * 16, and max_hotspots when that value is max_hotspots or
\* more.
C16_TargetCountTruncates ==
    AfterResize =>
        /\ n_hot \in 1..max_hotspots
        /\ CountNum >= max_hotspots * CountDen => n_hot = max_hotspots
        /\ CountNum < max_hotspots * CountDen =>
               /\ n_hot * CountDen <= CountNum
               /\ CountNum < (n_hot + 1) * CountDen

\* 1 + avg_energy * 16 is just below 8: the count is 7 where rounding to the
\* nearest integer gives 8
C16_Witness ==
    /\ AfterResize
    /\ n_hot = 7
    /\ 2 * (CountNum - 7 * CountDen) > CountDen

\* C17 as stated: boundary index i of compute_fft_bars equals
\* round(i * num_bins / K) for every i in 0..K.
C17_BoundariesRounded ==
    FftReturned =>
        \A i \in 0..num_bars : Nearest(bins[i + 1], i * Len(spectrum), num_bars)

\* C17 (amended): boundary index i is i * num_bins / K rounded down: boundary
\* 0 is 0, boundary K is num_bins, and in between it is floor(i * num_bins /
\* K), or one less where i * num_bins / K is an integer.
C17_BoundariesFloored ==
    FftReturned =>
        /\ bins[1] = 0
        /\ bins[num_bars + 1] = Len(spectrum)
        /\ \A i \in 1..(num_bars - 1) :
              LET q == (i * Len(spectrum)) \div num_bars
              IN  IF (i * Len(spectrum)) % num_bars = 0
                  THEN bins[i + 1] \in {q - 1, q}
                  ELSE bins[i + 1] = q

\* i * num_bins / K has a fractional part above one half: the boundary is
\* the integer below, not the nearest one
C17_Witness ==
    /\ FftReturned
    /\ \E i \in 1..(num_bars - 1) :
           /\ 2 * ((i * Len(spectrum)) % num_bars) > num_bars
           /\ bins[i + 1] = (i * Len(spectrum)) \div num_bars

\* a viscosity update has run: bin_idx holds the bins it chose
AfterViscosity == variant = "visualization3d" /\ frame >= 1

\* rel = clamp(1 - (min_dist * distance_scale) / 2, 0, 1) of point i, in
\* units of 1/PosUnit, with distance_scale = 0.5
RelOf(i) == Clip(PosUnit - MinDist(gridN, i, hotspots) \div 4, 0, PosUnit)

\* rel * (num_bars - 1) of point i, in units of 1/PosUnit
RelBin(i) == RelOf(i) * (num_bars - 1)

\* C18 as stated: the bin that drives a mesh point is
\* round(rel * (num_bars - 1)), and it is a valid index in 0..num_bars-1.
\* (The hotspots do not change between the update and the next move.)
C18_BinRounded ==
    (AfterViscosity /\ pc \in {"read", "resize"}) =>
        \A i \in Points(gridN) :
            /\ bin_idx[i] \in 0..(num_bars - 1)
            /\ Nearest(bin_idx[i], RelBin(i), PosUnit)

\* C18 (amended): the bin that a viscosity update chooses for a mesh point
\* is rel * (num_bars - 1) truncated to an integer, rel = clamp(1 - (min_dist
\* * 0.5) / 2, 0, 1) with min_dist the distance to the nearest active
\* hotspot; it is a valid index in 0..num_bars-1.
C18_BinTruncated ==
    [][(pc = "relax" /\ variant = "visualization3d") =>
          \A i \in Points(gridN) :
              LET r == RelBin(i)
              IN  /\ bin_idx'[i] \in 0..(num_bars - 1)
                  /\ bin_idx'[i] * PosUnit <= r
                  /\ r < (bin_idx'[i] + 1) * PosUnit]_vars

\* a point whose rel * (num_bars - 1) has a fractional part above one half
\* and is driven by the bin below
C18_Witness ==
    /\ AfterViscosity /\ pc = "read"
    /\ \E i \in Points(gridN) :
           /\ 2 * (RelBin(i) % PosUnit) > PosUnit
           /\ bin_idx[i] = RelBin(i) \div PosUnit

\* C19: every active hotspot's position lies in [-1,1] x [-1,1], at creation
\* and after every move, for any sequence of drift and jitter values.
C19_PositionsInSquare ==
    \A j \in 1..Len(hotspots) :
        /\ hotspots[j].x \in (-PosUnit)..PosUnit
        /\ hotspots[j].y \in (-PosUnit)..PosUnit

\* a hotspot that started on the wall x = -1 drifting outward, after two
\* moves: the first was clipped to the wall and turned the drift inward
C19_Witness ==
    /\ variant = "hotspot" /\ frame = 2
    /\ hotspots[1].x > -PosUnit
    /\ hotspots[1].x <= -PosUnit + MaxDrift + 2 * MaxJitter
    /\ hotspots[1].dx = MaxDrift

\* the shorter of the two lengths
MinLen(a, b) == IF Len(a) < Len(b) THEN Len(a) ELSE Len(b)

\* C20: the grow/shrink step of a frame only appends hotspots at the end or
\* removes them from the end: the first min(m, n) hotspots are the same
\* ones, in the same order, with positions and drifts unchanged, m and n
\* being the counts before and after the step.
C20_ResizeKeepsPrefix ==
    [][pc = "resize" =>
          SubSeq(hotspots', 1, MinLen(hotspots, hotspots'))
              = SubSeq(hotspots, 1, MinLen(hotspots, hotspots'))]_vars

\* the second frame is silent after a first frame at full level (every
\* height is 0.18 * 8 after it): the list has shrunk from max_hotspots to 1
C20_Witness ==
    /\ variant = "visualization3d" /\ pc = "move" /\ frame = 1
    /\ Len(hotspots) = 1
    /\ AllHeights(Scale100(v3_spring_k, 8 * Unit))

(***************************************************************************)
(* The update loops point by point.  The loop of mesh_wave.py writes        *)
(* velocities[i] and adds the velocities to the heights after the loop;    *)
(* the loop of visualization3d.py writes new_heights[i] and copies         *)
(* new_heights into heights after the loop.  ord is the sequence of points *)
(* the loop visits; the source visits them as range(GRID_N*GRID_N).        *)
(***************************************************************************)

OrderPoints == 0..2

Orders == {o \in [1..3 -> OrderPoints] : \A i, j \in 1..3 : i # j => o[i] # o[j]}

\* a triangle, a path 0-1-2, and a mesh in which point 2 has no neighbour
OrderNeighbors ==
    {(0 :> <<1, 2>> @@ 1 :> <<0, 2>> @@ 2 :> <<0, 1>>),
     (0 :> <<1>> @@ 1 :> <<0, 2>> @@ 2 :> <<1>>),
     (0 :> <<1>> @@ 1 :> <<0>> @@ 2 :> <<>>)}

OrderHeights == {-(Unit \div 2), 0, Unit \div 4}

OrderVelocities == {0, Unit \div 10}

OrderBars == {0, Unit}

\* the height is moved inside the loop, as soon as the velocity is known
VelocityPointInPlace(h, v, nb, bars, i) ==
    LET nv == Scale100(damp, v[i] + VelocityForce(h, nb, i, DirectTarget(bars, i)))
    IN  <<[h EXCEPT ![i] = @ + nv], [v EXCEPT ![i] = nv]>>

\* the loop body for point i: <<heights, velocities>> after it
VelocityPoint(h, v, nb, bars, i) ==
    <<h, [v EXCEPT ![i] =
              Scale100(damp, v[i] + VelocityForce(h, nb, i, DirectTarget(bars, i)))]>>

RECURSIVE VelocityLoop(_, _, _, _, _, _)
\* the loop over the points ord[j], ord[j+1], ... (the test of DOMAIN v is
\* never true: it has the arrays evaluated at every step)
VelocityLoop(h, v, nb, bars, ord, j) ==
    IF j > Len(ord) \/ DOMAIN v = {} THEN <<h, v>>
    ELSE LET s == VelocityPoint(h, v, nb, bars, ord[j])
         IN  VelocityLoop(s[1], s[2], nb, bars, ord, j + 1)

\* the loop, then heights += velocities: <<heights, velocities>> of the frame
VelocityUpdate(h, v, nb, bars, ord) ==
    LET s == VelocityLoop(h, v, nb, bars, ord, 1)
    IN  <<[i \in DOMAIN h |-> s[1][i] + s[2][i]], s[2]>>

\* the loop body for point i, b[i] its bin_idx: <<heights, new_heights>>
ViscosityPoint(h, nh, nb, b, bars, i) ==
    <<h, [nh EXCEPT ![i] =
              Scale100(visc, h[i])
              + Scale100(v3_spring_k, HotspotTarget(b[i], bars) - h[i])
              + Scale100(v3_neighbor_k, NeighborAvg(h, nb, i) - h[i])]>>

RECURSIVE ViscosityLoop(_, _, _, _, _, _, _)
ViscosityLoop(h, nh, nb, b, bars, ord, j) ==
    IF j > Len(ord) \/ DOMAIN nh = {} THEN <<h, nh>>
    ELSE LET s == ViscosityPoint(h, nh, nb, b, bars, ord[j])
         IN  ViscosityLoop(s[1], s[2], nb, b, bars, ord, j + 1)

\* new_heights = zeros; the loop; heights[:] = new_heights
ViscosityUpdate(h, nb, b, bars, ord) ==
    ViscosityLoop(h, [i \in DOMAIN h |-> 0], nb, b, bars, ord, 1)[2]

InitOrder ==
    /\ variant \in {"mesh_wave_loop", "visualization3d_loop"}
    /\ pc = "relax" /\ frame = 0
    /\ order \in Orders
    /\ IdleSort
    /\ neighbors \in OrderNeighbors
    /\ heights \in [OrderPoints -> OrderHeights]
    /\ velocities \in IF variant = "mesh_wave_loop"
                      THEN [OrderPoints -> OrderVelocities]
                      ELSE {[i \in OrderPoints |-> 0]}
    /\ \E b \in [1..3 -> OrderBars] : fft_bars = [i \in 1..3 |-> Num(b[i])]
    /\ bin_idx \in IF variant = "mesh_wave_loop" THEN {<<>>}
                   ELSE {[i \in OrderPoints |-> i], [i \in OrderPoints |-> 2 - i]}
    /\ gridN = 0 /\ simplices = <<>> /\ k = 0
    /\ spectrum = <<>> /\ num_bars = 3 /\ bins = <<>>
    /\ hotspots = <<>> /\ n_hot = 0 /\ rng = 0
    /\ IdleRun
    /\ IdleSmooth

\* the update of one frame, the points visited in the order "order"
OrderedRelax ==
    /\ pc = "relax"
    /\ IF variant = "mesh_wave_loop"
       THEN LET s == VelocityUpdate(heights, velocities, neighbors, fft_bars, order)
            IN  heights' = s[1] /\ velocities' = s[2]
       ELSE /\ heights' = ViscosityUpdate(heights, neighbors, bin_idx, fft_bars, order)
            /\ velocities' = velocities
    /\ frame' = frame + 1
    /\ pc' = "done"
    /\ UNCHANGED <<topoVars, fftVars, variant, hotVars, runVars, smoothVars, bin_idx, order, sortVars>>

NextOrder == OrderedRelax

SpecOrder == InitOrder /\ [][NextOrder]_vars

\* C21: in a frame of either relaxation variant every point's new height is
\* computed only from the heights at the start of the frame (it is the
\* value of the update formula on those heights), so the heights after the
\* frame are the same for every order in which the points are visited.
C21_OrderIndependent ==
    [][pc = "relax" =>
          IF variant = "mesh_wave_loop"
          THEN /\ \A i \in OrderPoints :
                      heights'[i] = heights[i]
                          + RelaxVelocities(heights, velocities, neighbors, fft_bars)[i]
               /\ \A o \in Orders :
                      heights' = VelocityUpdate(heights, velocities, neighbors, fft_bars, o)[1]
          ELSE /\ heights' = RelaxViscosity(heights, neighbors, bin_idx, fft_bars)
               /\ \A o \in Orders :
                      heights' = ViscosityUpdate(heights, neighbors, bin_idx, fft_bars, o)]_vars

\* the points of a triangle visited last to first, every one of them moved:
\* each point was updated after a neighbour of it
C21_Witness ==
    /\ variant = "mesh_wave_loop" /\ pc = "done"
    /\ order = <<2, 1, 0>>
    /\ neighbors[2] = <<0, 1>>
    /\ \A i \in OrderPoints : velocities[i] # 0

\* position p on a wall of its axis with the drift d not pointing outward
NotOutward(p, d) ==
    /\ p = PosUnit => d <= 0
    /\ p = -PosUnit => d >= 0

\* position q on a wall of its axis after a move that started at p with the
\* drift d pointing toward that wall
DrivenToWall(p, d, q) ==
    \/ q = PosUnit /\ d > 0
    \/ q = -PosUnit /\ d < 0

\* C22 as stated: whenever a move leaves a hotspot on a boundary of an axis,
\* its drift on that axis afterwards points toward the interior, so it is
\* never pushed by its drift further against the wall it sits on.
C22_DriftPointsInward ==
    (variant = "hotspot" /\ frame >= 1) =>
        /\ NotOutward(hotspots[1].x, hotspots[1].dx)
        /\ NotOutward(hotspots[1].y, hotspots[1].dy)

\* C22 (amended): whenever a move leaves a hotspot on a boundary of an axis
\* and its drift on that axis before the move pointed toward that boundary,
\* its drift afterwards points toward the interior; the drift before the
\* move did point toward the boundary whenever the hotspot was strictly
\* inside on that axis and the drift exceeds the jitter bound.
C22_InwardWhenDrivenToWall ==
    [][\A j \in 1..Len(hotspots) :
          LET h == hotspots[j]
              m == hotspots'[j]
          IN  /\ DrivenToWall(h.x, h.dx, m.x) => m.dx * m.x < 0
              /\ DrivenToWall(h.y, h.dy, m.y) => m.dy * m.y < 0
              /\ (Abs(h.x) < PosUnit /\ Abs(h.dx) > MaxJitter /\ Abs(m.x) = PosUnit)
                     => DrivenToWall(h.x, h.dx, m.x)
              /\ (Abs(h.y) < PosUnit /\ Abs(h.dy) > MaxJitter /\ Abs(m.y) = PosUnit)
                     => DrivenToWall(h.y, h.dy, m.y)]_vars

\* a hotspot carried to the wall y = 1 by its drift in its first move
C22_Witness ==
    /\ variant = "hotspot" /\ frame = 1
    /\ hotspots[1].y = PosUnit
    /\ hotspots[1].dy = -MaxDrift

(***************************************************************************)
(* The sort generators of visualSort (sorts.py) and the loop of main.py    *)
(* that steps them.  A list is a function on the indices 0..n-1.  A        *)
(* suspended generator is its stack of frames, the innermost last; a frame *)
(* holds the locals of one generator function and the place ("at") where   *)
(* it resumes.  One step of a frame gives the list, the frames that        *)
(* replace it (none: it returned; two: it called a sub-generator) and the  *)
(* index it yielded (<<>>: it did not yield).                              *)
(***************************************************************************)
MaxSortLen == 4

\* the values of the list elements
SortVals == {0, 1, 2}

ALGORITHMS == {"bubble_sort", "insertion_sort", "selection_sort",
               "merge_sort", "quick_sort", "heap_sort"}

ListLen(a) == Cardinality(DOMAIN a)

\* a[i], a[j] = a[j], a[i]
Swap(a, i, j) == [a EXCEPT ![i] = a[j], ![j] = a[i]]

\* a[s:e]
Slice(a, s, e) == [x \in 0..(e - s - 1) |-> a[s + x]]

\* a frame of the generator function fn that has not begun
NewFrame(fn) ==
    [fn |-> fn, at |-> "start", start |-> 0, mid |-> 0, end |-> 0,
     n |-> 0, i |-> 0, j |-> 0, k |-> 0, key |-> 0, pivot |-> 0,
     min_idx |-> 0, largest |-> 0, left |-> NoList, right |-> NoList]

Yielded(a, f, y) == [arr |-> a, frames |-> <<f>>, y |-> <<y>>]
Goes(a, f) == [arr |-> a, frames |-> <<f>>, y |-> <<>>]
Calls(a, f, g) == [arr |-> a, frames |-> <<f, g>>, y |-> <<>>]
Returns(a) == [arr |-> a, frames |-> <<>>, y |-> <<>>]

bubble_sort(a, f) ==
    CASE f.at = "start" ->
           Goes(a, [f EXCEPT !.at = "for_i", !.n = ListLen(a), !.i = 0])
      [] f.at = "for_i" ->
           IF f.i >= f.n THEN Returns(a)
           ELSE Goes(a, [f EXCEPT !.at = "for_j", !.j = 0])
      [] f.at = "for_j" ->
           IF f.j >= f.n - f.i - 1
           THEN Goes(a, [f EXCEPT !.at = "for_i", !.i = @ + 1])
           ELSE Yielded(IF a[f.j] > a[f.j + 1] THEN Swap(a, f.j, f.j + 1) ELSE a,
                        [f EXCEPT !.at = "yield"], f.j + 1)
      [] f.at = "yield" ->
           Goes(a, [f EXCEPT !.at = "for_j", !.j = @ + 1])

\* the key is never written back after the shifts
insertion_sort_no_key(a, f) ==
    CASE f.at = "start" ->
           Goes(a, [f EXCEPT !.at = "for_i", !.n = ListLen(a), !.i = 1])
      [] f.at = "for_i" ->
           IF f.i >= f.n THEN Returns(a)
           ELSE Goes(a, [f EXCEPT !.at = "while", !.key = a[f.i], !.j = f.i - 1])
      [] f.at = "while" ->
           IF f.j >= 0 /\ a[f.j] > f.key
           THEN Yielded([a EXCEPT ![f.j + 1] = a[f.j]],
                        [f EXCEPT !.j = @ - 1], f.i)
           ELSE Yielded(a, [f EXCEPT !.at = "yield"], f.i)
      [] f.at = "yield" ->
           Goes(a, [f EXCEPT !.at = "for_i", !.i = @ + 1])

insertion_sort(a, f) ==
    CASE f.at = "start" ->
           Goes(a, [f EXCEPT !.at = "for_i", !.n = ListLen(a), !.i = 1])
      [] f.at = "for_i" ->
           IF f.i >= f.n THEN Returns(a)
           ELSE Goes(a, [f EXCEPT !.at = "while", !.key = a[f.i], !.j = f.i - 1])
      [] f.at = "while" ->
           IF f.j >= 0 /\ a[f.j] > f.key
           THEN Yielded([a EXCEPT ![f.j + 1] = a[f.j]],
                        [f EXCEPT !.j = @ - 1], f.i)
           ELSE Yielded([a EXCEPT ![f.j + 1] = f.key],
                        [f EXCEPT !.at = "yield"], f.i)
      [] f.at = "yield" ->
           Goes(a, [f EXCEPT !.at = "for_i", !.i = @ + 1])

selection_sort(a, f) ==
    CASE f.at = "start" ->
           Goes(a, [f EXCEPT !.at = "for_i", !.n = ListLen(a), !.i = 0])
      [] f.at = "for_i" ->
           IF f.i >= f.n THEN Returns(a)
           ELSE Goes(a, [f EXCEPT !.at = "for_j", !.min_idx = f.i, !.j = f.i + 1])
      [] f.at = "for_j" ->
           IF f.j >= f.n
           THEN Yielded(Swap(a, f.i, f.min_idx), [f EXCEPT !.at = "yield_i"], f.i)
           ELSE Yielded(a, [f EXCEPT !.at = "yield_j",
                                     !.min_idx = IF a[f.j] < a[@] THEN f.j ELSE @],
                        f.j)
      [] f.at = "yield_j" ->
           Goes(a, [f EXCEPT !.at = "for_j", !.j = @ + 1])
      [] f.at = "yield_i" ->
           Goes(a, [f EXCEPT !.at = "for_i", !.i = @ + 1])

\* merge(start, mid, end) of merge_sort
merge(a, f) ==
    CASE f.at = "start" ->
           Goes(a, [f EXCEPT !.at = "for_k", !.left = Slice(a, f.start, f.mid),
                             !.right = Slice(a, f.mid, f.end),
                             !.i = 0, !.j = 0, !.k = f.start])
      [] f.at = "for_k" ->
           IF f.k >= f.end THEN Returns(a)
           ELSE IF f.i < ListLen(f.left)
                   /\ (f.j >= ListLen(f.right) \/ f.left[f.i] <= f.right[f.j])
                THEN Yielded([a EXCEPT ![f.k] = f.left[f.i]],
                             [f EXCEPT !.at = "yield", !.i = @ + 1], f.k)
                ELSE Yielded([a EXCEPT ![f.k] = f.right[f.j]],
                             [f EXCEPT !.at = "yield", !.j = @ + 1], f.k)
      [] f.at = "yield" ->
           Goes(a, [f EXCEPT !.at = "for_k", !.k = @ + 1])

\* _merge_sort(start, end) of merge_sort
_merge_sort(a, f) ==
    CASE f.at = "start" ->
           IF f.end - f.start > 1
           THEN LET m == (f.start + f.end) \div 2
                IN  Calls(a, [f EXCEPT !.at = "left", !.mid = m],
                          [NewFrame("_merge_sort") EXCEPT !.start = f.start, !.end = m])
           ELSE Returns(a)
      [] f.at = "left" ->
           Calls(a, [f EXCEPT !.at = "right"],
                 [NewFrame("_merge_sort") EXCEPT !.start = f.mid, !.end = f.end])
      [] f.at = "right" ->
           Calls(a, [f EXCEPT !.at = "merge"],
                 [NewFrame("merge") EXCEPT !.start = f.start, !.mid = f.mid,
                                           !.end = f.end])
      [] f.at = "merge" -> Returns(a)

merge_sort(a, f) ==
    CASE f.at = "start" ->
           Calls(a, [f EXCEPT !.at = "called"],
                 [NewFrame("_merge_sort") EXCEPT !.start = 0, !.end = ListLen(a)])
      [] f.at = "called" -> Returns(a)

\* _quick_sort(start, end) of quick_sort
_quick_sort(a, f) ==
    CASE f.at = "start" ->
           IF f.start < f.end
           THEN Goes(a, [f EXCEPT !.at = "for_j", !.pivot = a[f.end - 1],
                                  !.i = f.start, !.j = f.start])
           ELSE Returns(a)
      [] f.at = "for_j" ->
           IF f.j >= f.end - 1
           THEN Yielded(Swap(a, f.i, f.end - 1), [f EXCEPT !.at = "yield_i"], f.i)
           ELSE IF a[f.j] < f.pivot
                THEN Yielded(Swap(a, f.i, f.j),
                             [f EXCEPT !.at = "yield_j", !.i = @ + 1], f.j)
                ELSE Yielded(a, [f EXCEPT !.at = "yield_j"], f.j)
      [] f.at = "yield_j" ->
           Goes(a, [f EXCEPT !.at = "for_j", !.j = @ + 1])
      [] f.at = "yield_i" ->
           Calls(a, [f EXCEPT !.at = "first"],
                 [NewFrame("_quick_sort") EXCEPT !.start = f.start, !.end = f.i])
      [] f.at = "first" ->
           Calls(a, [f EXCEPT !.at = "second"],
                 [NewFrame("_quick_sort") EXCEPT !.start = f.i + 1, !.end = f.end])
      [] f.at = "second" -> Returns(a)

quick_sort(a, f) ==
    CASE f.at = "start" ->
           Calls(a, [f EXCEPT !.at = "called"],
                 [NewFrame("_quick_sort") EXCEPT !.start = 0, !.end = ListLen(a)])
      [] f.at = "called" -> Returns(a)

\* heapify(n, i) of heap_sort
heapify(a, f) ==
    CASE f.at = "start" ->
           LET l == 2 * f.i + 1
               r == 2 * f.i + 2
               l_largest == IF l < f.n /\ a[l] > a[f.i] THEN l ELSE f.i
               largest == IF r < f.n /\ a[r] > a[l_largest] THEN r ELSE l_largest
           IN  IF largest # f.i
               THEN Yielded(Swap(a, f.i, largest),
                            [f EXCEPT !.at = "yield", !.largest = largest], largest)
               ELSE Returns(a)
      [] f.at = "yield" ->
           Calls(a, [f EXCEPT !.at = "called"],
                 [NewFrame("heapify") EXCEPT !.n = f.n, !.i = f.largest])
      [] f.at = "called" -> Returns(a)

heap_sort(a, f) ==
    CASE f.at = "start" ->
           Goes(a, [f EXCEPT !.at = "build", !.n = ListLen(a),
                             !.i = (ListLen(a) \div 2) - 1])
      [] f.at = "build" ->
           IF f.i >= 0
           THEN Calls(a, [f EXCEPT !.at = "built"],
                      [NewFrame("heapify") EXCEPT !.n = f.n, !.i = f.i])
           ELSE Goes(a, [f EXCEPT !.at = "sort", !.i = f.n - 1])
      [] f.at = "built" ->
           Goes(a, [f EXCEPT !.at = "build", !.i = @ - 1])
      [] f.at = "sort" ->
           IF f.i > 0
           THEN Yielded(Swap(a, 0, f.i), [f EXCEPT !.at = "yield"], f.i)
           ELSE Returns(a)
      [] f.at = "yield" ->
           Calls(a, [f EXCEPT !.at = "sifted"],
                 [NewFrame("heapify") EXCEPT !.n = f.i, !.i = 0])
      [] f.at = "sifted" ->
           Goes(a, [f EXCEPT !.at = "sort", !.i = @ - 1])

\* one step of the innermost frame
FrameStep(a, f) ==
    CASE f.fn = "bubble_sort" -> bubble_sort(a, f)
      [] f.fn = "insertion_sort" -> insertion_sort(a, f)
      [] f.fn = "selection_sort" -> selection_sort(a, f)
      [] f.fn = "merge_sort" -> merge_sort(a, f)
      [] f.fn = "_merge_sort" -> _merge_sort(a, f)
      [] f.fn = "merge" -> merge(a, f)
      [] f.fn = "quick_sort" -> quick_sort(a, f)
      [] f.fn = "_quick_sort" -> _quick_sort(a, f)
      [] f.fn = "heap_sort" -> heap_sort(a, f)
      [] f.fn = "heapify" -> heapify(a, f)

\* the generator with the frames g takes one step of its innermost frame
GenStep(a, g) ==
    LET r == FrameStep(a, g[Len(g)])
    IN  [arr |-> r.arr, gen |-> SubSeq(g, 1, Len(g) - 1) \o r.frames, y |-> r.y]

\* next(gen): the generator with the frames g runs on the list a up to its
\* next yield (y = <<index>>) or to its end (StopIteration: no frame is left)
RECURSIVE GenNext(_, _)
GenNext(a, g) ==
    IF g = <<>> THEN [arr |-> a, gen |-> g, y |-> <<>>]
    ELSE CHOOSE out \in {IF s.y # <<>> THEN s ELSE GenNext(s.arr, s.gen)
                            : s \in {GenStep(a, g)}} : TRUE

\* the lists handed to the generators
SortLists == UNION {[0..(n - 1) -> SortVals] : n \in 0..MaxSortLen}

\* main(): arrays[idx] = base.copy(), generators[idx] = alg(arrays[idx])
InitSort ==
    /\ variant = "visual_sort"
    /\ pc = "sorting" /\ frame = 0
    /\ alg \in ALGORITHMS
    /\ base \in SortLists
    /\ arr = base
    /\ gen = <<NewFrame(alg)>>
    /\ highlight = <<>>
    /\ finished = FALSE
    /\ order = <<>> /\ bin_idx = <<>>
    /\ neighbors = <<>> /\ heights = <<>> /\ velocities = <<>>
    /\ fft_bars = <<>>
    /\ gridN = 0 /\ simplices = <<>> /\ k = 0
    /\ spectrum = <<>> /\ num_bars = 0 /\ bins = <<>>
    /\ hotspots = <<>> /\ n_hot = 0 /\ rng = 0
    /\ IdleRun
    /\ IdleSmooth

\* one pass of the loop of main() over a generator that has not finished:
\* highlights[idx] = next(gen), or on StopIteration highlights[idx] = None
\* and finish_times[idx] is set
StepGenerator ==
    /\ variant = "visual_sort"
    /\ ~finished
    /\ LET r == GenNext(arr, gen)
       IN  /\ arr' = r.arr
           /\ gen' = r.gen
           /\ highlight' = r.y
           /\ finished' = (r.y = <<>>)
    /\ UNCHANGED <<topoVars, fftVars, meshVars, hotVars, runVars, smoothVars, bin_idx, order, alg, base>>

NextSort == StepGenerator

SpecSort == InitSort /\ [][NextSort]_vars

\* main() steps every unfinished generator in every frame
SpecSortLive == SpecSort /\ WF_vars(StepGenerator)

\* the list is in ascending order
IsSorted(a) == \A i, j \in DOMAIN a : i < j => a[i] <= a[j]

\* the lists a and b hold the same values the same number of times
IsPermutation(a, b) ==
    /\ DOMAIN a = DOMAIN b
    /\ \A v \in SortVals :
          Cardinality({i \in DOMAIN a : a[i] = v}) = Cardinality({i \in DOMAIN b : b[i] = v})

\* C23: for every input list each of the six generators, stepped until it
\* is exhausted, is exhausted after finitely many yields, and the list is
\* then in ascending order and a permutation of the input.
C23_SortsTerminateSorted ==
    /\ <>finished
    /\ [](finished => IsSorted(arr) /\ IsPermutation(arr, base))

\* heap_sort exhausted on a list of the largest length that was not sorted
C23_Witness ==
    /\ finished
    /\ alg = "heap_sort"
    /\ ListLen(base) = MaxSortLen
    /\ ~IsSorted(base)
    /\ arr # base

====
